---- MODULE Spec2Model ----
(***************************************************************************)
(* Model of main_workflow (src/MOCC_2025/src/main.py): the three-round     *)
(* generate -> extract -> inject -> verify -> refine loop.                 *)
(*                                                                         *)
(* Text is modelled as a sequence of tokens.  Each marker and each         *)
(* placeholder of the program is one token, a newline is "nl", a blank is  *)
(* "sp", and every other token stands for one ordinary character.  The     *)
(* program's markers cannot overlap themselves, so Python's str.split and  *)
(* str.replace on them are the leftmost, non-overlapping scans modelled by *)
(* Split and Replace below.                                                *)
(***************************************************************************)
EXTENDS Integers, Sequences, FiniteSets, TLC

VARIABLES
    problem_description, \* argument of main_workflow
    task_lean_code,      \* argument of main_workflow (the template)
    pc,                  \* position inside main_workflow
    round_idx,           \* loop variable of "for round_idx in range(3)"
    code_snippet,        \* local
    proof_snippet,       \* local
    last_error,          \* local
    messages,            \* local: the message list of the current round
    response,            \* local: the text the generation call returned
    filled,              \* local: the document handed to the verifier
    results,             \* the values main_workflow has returned, in order
    llm_calls,           \* history: calls of llm.get_response
    reasoner_calls,      \* history: calls of reasoner.get_response
    round_calls,         \* history: generation calls made in this round
    agents_called,       \* history: the agents those calls went to, in order
    extractions,         \* history: executions of the extraction step
    escaped,             \* the exception that left main_workflow, or "none"
    verifier_calls,      \* history: calls of execute_lean_code
    llm_raises,          \* history: calls of llm.get_response that raised
    reasoner_raises,     \* history: calls of reasoner.get_response that raised
    verdict,             \* history: outcome of the latest verifier call
    first_sent,          \* history: message list of this round's first call
    sent,                \* history: message list of the latest generation call
    code_set,            \* history: this round's extraction assigned code_snippet
    proof_set,           \* history: this round's extraction assigned proof_snippet
    code_extracted,      \* history: some extraction assigned code_snippet
    proof_extracted,     \* history: some extraction assigned proof_snippet
    start_code,          \* history: code_snippet when this round's extraction began
    start_proof,         \* history: proof_snippet when this round's extraction began
    ref_error,           \* reference run without generation failures: last_error
    ref_messages,        \* reference run without generation failures: messages
    sys_argv,            \* __main__: sys.argv
    main_pc,             \* __main__: position inside the script
    main_desc,           \* __main__: local desc
    main_tmpl,           \* __main__: local tmpl
    stdout,              \* __main__: what has been printed
    exit_status,         \* __main__: exit status of the process, -1 while it runs
    files_read,          \* history: task files opened and read
    workflow_runs        \* history: calls of main_workflow made by the script

vars == <<problem_description, task_lean_code, pc, round_idx, code_snippet,
          proof_snippet, last_error, messages, response, filled, results,
          llm_calls, reasoner_calls, round_calls, verifier_calls,
          llm_raises, reasoner_raises, verdict, first_sent, sent,
          code_set, proof_set, code_extracted, proof_extracted,
          start_code, start_proof, ref_error, ref_messages, agents_called,
          extractions, escaped, sys_argv, main_pc, main_desc, main_tmpl, stdout,
          exit_status, files_read, workflow_runs>>

mainVars == <<sys_argv, main_pc, main_desc, main_tmpl, stdout, exit_status,
              files_read, workflow_runs>>

(***************************************************************************)
(* Program constants and literals                                          *)
(***************************************************************************)
MaxRounds == 3

CODE_START == <<"CS">>        \* "-- << CODE START >>"
CODE_END == <<"CE">>          \* "-- << CODE END >>"
PROOF_START == <<"PS">>       \* "-- << PROOF START >>"
PROOF_END == <<"PE">>         \* "-- << PROOF END >>"
CODE_TOKEN == <<"KC">>        \* "{{code}}"
PROOF_TOKEN == <<"KP">>       \* "{{proof}}"
PROOF_TOKEN_NL == <<"KP", "nl">>  \* "{{proof}}\n"
SORRY == <<"sorry">>          \* "sorry"
Whitespace == {"sp", "nl"}

NoMessages == <<>>

(***************************************************************************)
(* Python string primitives on token sequences                             *)
(***************************************************************************)
\* s[i:] starts with sep
MatchAt(s, sep, i) ==
    /\ i + Len(sep) - 1 <= Len(s)
    /\ \A k \in 1..Len(sep) : s[i + k - 1] = sep[k]

\* str.find: the least index at which sep occurs in s, 0 when it does not
Find(s, sep) ==
    LET hits == {i \in 1..Len(s) : MatchAt(s, sep, i)}
    IN  IF hits = {} THEN 0 ELSE CHOOSE i \in hits : \A j \in hits : i <= j

\* str.split(sep): the pieces between the leftmost non-overlapping occurrences
RECURSIVE Split(_, _)
Split(s, sep) ==
    LET i == Find(s, sep)
    IN  IF i = 0
        THEN <<s>>
        ELSE <<SubSeq(s, 1, i - 1)>> \o Split(SubSeq(s, i + Len(sep), Len(s)), sep)

\* str.strip(): drop leading and trailing whitespace
RECURSIVE LStrip(_)
LStrip(s) ==
    IF s # <<>> /\ Head(s) \in Whitespace THEN LStrip(Tail(s)) ELSE s

RECURSIVE RStrip(_)
RStrip(s) ==
    IF s # <<>> /\ s[Len(s)] \in Whitespace
    THEN RStrip(SubSeq(s, 1, Len(s) - 1))
    ELSE s

Strip(s) == RStrip(LStrip(s))

\* new.join(pieces)
RECURSIVE Join(_, _)
Join(pieces, new) ==
    IF Len(pieces) = 1
    THEN pieces[1]
    ELSE pieces[1] \o new \o Join(Tail(pieces), new)

\* str.replace(old, new): every occurrence, one left-to-right pass
Replace(s, old, new) == Join(Split(s, old), new)

(***************************************************************************)
(* Prompt construction                                                     *)
(***************************************************************************)
\* the message list of round 0
InitialMessages(desc, tmpl) ==
    << [role |-> "system", content |-> <<"fill the placeholders">>],
       [role |-> "user",
        content |-> [description |-> desc, template |-> tmpl]] >>

\* variant of RefineMessages: the two fragments mixed up
RefineMessagesSwapped(desc, tmpl, code, proof, err) ==
    << [role |-> "system", content |-> <<"the previous code failed; fix it">>],
       [role |-> "user",
        content |-> [description |-> desc, template |-> tmpl,
                     implementation |-> proof, proof |-> code,
                     error |-> err]] >>

\* the message list of rounds 1 and 2
RefineMessages(desc, tmpl, code, proof, err) ==
    << [role |-> "system", content |-> <<"the previous code failed; fix it">>],
       [role |-> "user",
        content |-> [description |-> desc, template |-> tmpl,
                     implementation |-> code, proof |-> proof,
                     error |-> err]] >>

\* the branch "if round_idx == 0 ... else ..." that builds messages
BuildMessages(r, desc, tmpl, code, proof, err) ==
    IF r = 0
    THEN InitialMessages(desc, tmpl)
    ELSE RefineMessages(desc, tmpl, code, proof, err)

\* variant of Agent: the two agents mixed up
AgentSwapped(r) == IF r = 0 THEN "reasoner" ELSE "llm"

\* variant of Agent: every round calls the primary agent
AgentAlwaysLlm(r) == "llm"

\* the agent whose get_response the round calls
Agent(r) == IF r = 0 THEN "llm" ELSE "reasoner"

(***************************************************************************)
(* Extraction and injection                                                *)
(***************************************************************************)
\* text.split(start)[1] exists
HasPiece(text, start) == Len(Split(text, start)) > 1

\* variant of MarkerFragment: the strip() forgotten
MarkerFragmentUntrimmed(text, start, end) ==
    Split(Split(text, start)[2], end)[1]

\* variant of MarkerFragment: the piece after the last start marker
MarkerFragmentLastStart(text, start, end) ==
    Strip(Split(Split(text, start)[Len(Split(text, start))], end)[1])

\* text.split(start)[1].split(end)[0].strip()
MarkerFragment(text, start, end) ==
    Strip(Split(Split(text, start)[2], end)[1])

\* variant of Fallback: parts[0] taken instead of parts[1]
FallbackFirstPiece(text, c, p, cs, ps) ==
    LET parts == Split(text, CODE_TOKEN)
    IN  IF Len(parts) > 1
        THEN LET halves == Split(parts[1], PROOF_TOKEN_NL)
             IN  IF Len(halves) > 1
                 THEN [raised |-> FALSE,
                       code |-> Strip(halves[1]), proof |-> Strip(halves[2]),
                       code_set |-> TRUE, proof_set |-> TRUE]
                 ELSE [raised |-> TRUE,
                       code |-> Strip(halves[1]), proof |-> p,
                       code_set |-> TRUE, proof_set |-> ps]
        ELSE [raised |-> FALSE, code |-> c, proof |-> p,
              code_set |-> cs, proof_set |-> ps]

\* the except branch: fallback extraction, entered with the snippets c and p
\* and the assignment flags cs and ps that the try block left
Fallback(text, c, p, cs, ps) ==
    LET parts == Split(text, CODE_TOKEN)
    IN  IF Len(parts) > 1
        THEN LET halves == Split(parts[2], PROOF_TOKEN_NL)
             IN  IF Len(halves) > 1
                 THEN [raised |-> FALSE,
                       code |-> Strip(halves[1]), proof |-> Strip(halves[2]),
                       code_set |-> TRUE, proof_set |-> TRUE]
                 ELSE \* IndexError inside the handler: nothing catches it
                      [raised |-> TRUE,
                       code |-> Strip(halves[1]), proof |-> p,
                       code_set |-> TRUE, proof_set |-> ps]
        ELSE [raised |-> FALSE, code |-> c, proof |-> p,
              code_set |-> cs, proof_set |-> ps]

\* the try/except that extracts the two snippets from the response
Extract(text, c, p) ==
    IF HasPiece(text, CODE_START)
    THEN LET c1 == MarkerFragment(text, CODE_START, CODE_END)
         IN  IF HasPiece(text, PROOF_START)
             THEN [raised |-> FALSE, code |-> c1,
                   proof |-> MarkerFragment(text, PROOF_START, PROOF_END),
                   code_set |-> TRUE, proof_set |-> TRUE]
             ELSE Fallback(text, c1, p, TRUE, FALSE)
    ELSE Fallback(text, c, p, FALSE, FALSE)

\* task_lean_code.replace("{{code}}", c).replace("{{proof}}", p)
Inject(tmpl, c, p) ==
    Replace(Replace(tmpl, CODE_TOKEN, c), PROOF_TOKEN, p)

\* variant of OrSorry: the "or" forgotten
OrSorryNever(x) == x

\* x or "sorry"
OrSorry(x) == IF x = <<>> THEN SORRY ELSE x

\* variant of SuccessResult: the placeholder also put in on success
SuccessResultOrSorry(c, p) == [code |-> OrSorry(c), proof |-> OrSorry(p)]

\* the return inside the loop
SuccessResult(c, p) == [code |-> c, proof |-> p]

\* variant of ExhaustedResult: one empty fragment makes both fields "sorry"
ExhaustedResultBoth(c, p) ==
    IF c = <<>> \/ p = <<>>
    THEN [code |-> SORRY, proof |-> SORRY]
    ELSE [code |-> c, proof |-> p]

\* the return after the loop
ExhaustedResult(c, p) == [code |-> OrSorry(c), proof |-> OrSorry(p)]

\* variant of HasNextRound: one round too many
HasNextRoundOneMore(r) == r + 1 <= MaxRounds

\* range(3) has a next index after r
HasNextRound(r) == r + 1 < MaxRounds

(***************************************************************************)
(* The environment: what the callers and the external capabilities supply  *)
(***************************************************************************)
Descriptions == {<<"d">>}

Templates ==
    { <<"t", "KC", "sp", "KP">>,
      <<"KP", "nl", "KC">> }

\* texts get_response can return
Responses ==
    { <<"a", "CS", "sp", "x", "CE", "a", "PS", "y", "nl", "PE", "a">>,
      <<"PS", "y", "PE", "CS", "z", "CE">>,
      <<"CS", "sp", "CE", "PS", "y", "PE">>,
      <<"CS", "KP", "CE", "PS", "y", "PE">>,
      <<"CS", "z", "CE">>,
      <<"KC", "nl", "x", "nl", "KP", "nl", "y">>,
      <<"KC", "x">>,
      <<"a">>,
      <<>> }

\* texts of the exceptions get_response can raise
Exceptions == {<<"exc">>}

\* diagnostics execute_lean_code can return with success = False
Diagnostics == {<<"err1">>, <<"err2">>}

(***************************************************************************)
(* main_workflow                                                           *)
(***************************************************************************)
\* the locals and the history at the entry of main_workflow
InitLocals ==
    /\ round_idx = 0
    /\ code_snippet = <<>>
    /\ proof_snippet = <<>>
    /\ last_error = <<>>
    /\ messages = NoMessages
    /\ response = <<>>
    /\ filled = <<>>
    /\ results = <<>>
    /\ llm_calls = 0
    /\ reasoner_calls = 0
    /\ round_calls = 0
    /\ verifier_calls = 0
    /\ llm_raises = 0
    /\ reasoner_raises = 0
    /\ verdict = "none"
    /\ first_sent = NoMessages
    /\ sent = NoMessages
    /\ code_set = FALSE
    /\ proof_set = FALSE
    /\ code_extracted = FALSE
    /\ proof_extracted = FALSE
    /\ start_code = <<>>
    /\ start_proof = <<>>
    /\ ref_error = <<>>
    /\ ref_messages = NoMessages
    /\ agents_called = <<>>
    /\ extractions = 0
    /\ escaped = "none"

\* main_workflow called with a task; the script is not involved
Init ==
    /\ problem_description \in Descriptions
    /\ task_lean_code \in Templates
    /\ pc = "build"
    /\ InitLocals
    /\ sys_argv = <<>>
    /\ main_pc = "imported"
    /\ main_desc = <<>>
    /\ main_tmpl = <<>>
    /\ stdout = <<>>
    /\ exit_status = -1
    /\ files_read = 0
    /\ workflow_runs = 0

\* history of one more call of the round's agent; raised tells how it ended
CountCall(raised) ==
    /\ round_calls' = round_calls + 1
    /\ agents_called' = Append(agents_called, Agent(round_idx))
    /\ sent' = messages
    /\ first_sent' = IF round_calls = 0 THEN messages ELSE first_sent
    /\ IF Agent(round_idx) = "llm"
       THEN /\ llm_calls' = llm_calls + 1
            /\ llm_raises' = IF raised THEN llm_raises + 1 ELSE llm_raises
            /\ UNCHANGED <<reasoner_calls, reasoner_raises>>
       ELSE /\ reasoner_calls' = reasoner_calls + 1
            /\ reasoner_raises' =
                   IF raised THEN reasoner_raises + 1 ELSE reasoner_raises
            /\ UNCHANGED <<llm_calls, llm_raises>>

\* top of the loop body: build system_msg, user_msg and messages
BuildPrompt ==
    /\ pc = "build"
    /\ messages' = BuildMessages(round_idx, problem_description, task_lean_code,
                                 code_snippet, proof_snippet, last_error)
    /\ ref_messages' = BuildMessages(round_idx, problem_description,
                                     task_lean_code, code_snippet,
                                     proof_snippet, ref_error)
    /\ round_calls' = 0
    /\ agents_called' = <<>>
    /\ pc' = "try"
    /\ UNCHANGED mainVars
    /\ UNCHANGED <<problem_description, task_lean_code, round_idx, code_snippet,
                   proof_snippet, last_error, response, filled, results,
                   llm_calls, reasoner_calls, verifier_calls, llm_raises,
                   reasoner_raises, verdict, first_sent, sent, code_set,
                   proof_set, code_extracted, proof_extracted, start_code,
                   start_proof, ref_error,
                   extractions, escaped>>

\* get_response(messages) returns one of texts, in the try block or in the
\* handler
GetResponse(texts) ==
    /\ pc \in {"try", "retry"}
    /\ \E r \in texts : response' = r
    /\ CountCall(FALSE)
    /\ pc' = "extract"
    /\ UNCHANGED mainVars
    /\ UNCHANGED <<problem_description, task_lean_code, round_idx, code_snippet,
                   proof_snippet, last_error, messages, filled, results,
                   verifier_calls, verdict, code_set, proof_set,
                   code_extracted, proof_extracted, start_code, start_proof,
                   ref_error, ref_messages,
                   extractions, escaped>>

GetResponseReturns == GetResponse(Responses)

\* get_response(messages) raises inside the try block: the handler records
\* str(e), sleeps, and calls again with the same messages
GetResponseRaises ==
    /\ pc = "try"
    /\ \E e \in Exceptions : last_error' = e
    /\ CountCall(TRUE)
    /\ pc' = "retry"
    /\ UNCHANGED mainVars
    /\ UNCHANGED <<problem_description, task_lean_code, round_idx, code_snippet,
                   proof_snippet, messages, response, filled, results,
                   verifier_calls, verdict, code_set, proof_set,
                   code_extracted, proof_extracted, start_code, start_proof,
                   ref_error, ref_messages,
                   extractions, escaped>>

\* variant of RetryRaises: the second exception is swallowed and the round
\* goes on with the response it had
RetryRaisesSwallowed ==
    /\ pc = "retry"
    /\ CountCall(TRUE)
    /\ pc' = "extract"
    /\ UNCHANGED mainVars
    /\ UNCHANGED <<problem_description, task_lean_code, round_idx, code_snippet,
                   proof_snippet, last_error, messages, response, filled,
                   results, verifier_calls, verdict, code_set, proof_set,
                   code_extracted, proof_extracted, start_code, start_proof,
                   ref_error, ref_messages, extractions, escaped>>

\* get_response(messages) raises inside the handler: the exception leaves
\* main_workflow
RetryRaises ==
    /\ pc = "retry"
    /\ CountCall(TRUE)
    /\ pc' = "raised"
    /\ escaped' = "get_response"
    /\ UNCHANGED mainVars
    /\ UNCHANGED <<problem_description, task_lean_code, round_idx, code_snippet,
                   proof_snippet, last_error, messages, response, filled,
                   results, verifier_calls, verdict, code_set, proof_set,
                   code_extracted, proof_extracted, start_code, start_proof,
                   ref_error, ref_messages,
                   extractions>>

\* extraction from the response, then injection into the template
ExtractAndInject ==
    /\ pc = "extract"
    /\ LET x == Extract(response, code_snippet, proof_snippet)
       IN  /\ code_snippet' = x.code
           /\ proof_snippet' = x.proof
           /\ code_set' = x.code_set
           /\ proof_set' = x.proof_set
           /\ code_extracted' = (code_extracted \/ x.code_set)
           /\ proof_extracted' = (proof_extracted \/ x.proof_set)
           /\ IF x.raised
              THEN /\ pc' = "raised"
                   /\ escaped' = "IndexError"
                   /\ filled' = filled
              ELSE /\ pc' = "verify"
                   /\ escaped' = escaped
                   /\ filled' = Inject(task_lean_code, x.code, x.proof)
    /\ start_code' = code_snippet
    /\ start_proof' = proof_snippet
    /\ extractions' = extractions + 1
    /\ UNCHANGED mainVars
    /\ UNCHANGED <<problem_description, task_lean_code, round_idx, last_error,
                   messages, response, results, llm_calls, reasoner_calls,
                   round_calls, verifier_calls, llm_raises, reasoner_raises,
                   verdict, first_sent, sent, ref_error, ref_messages,
                   agents_called>>

\* execute_lean_code(filled) returns success: return the snippets
VerifySucceeds ==
    /\ pc = "verify"
    /\ verifier_calls' = verifier_calls + 1
    /\ verdict' = "ok"
    /\ results' = Append(results, SuccessResult(code_snippet, proof_snippet))
    /\ pc' = "returned"
    /\ UNCHANGED mainVars
    /\ UNCHANGED <<problem_description, task_lean_code, round_idx, code_snippet,
                   proof_snippet, last_error, messages, response, filled,
                   llm_calls, reasoner_calls, round_calls, llm_raises,
                   reasoner_raises, first_sent, sent, code_set, proof_set,
                   code_extracted, proof_extracted, start_code, start_proof,
                   ref_error, ref_messages,
                   agents_called, extractions, escaped>>

\* variant of VerifyFails: the return after the loop forgotten
VerifyFailsNoReturn ==
    /\ pc = "verify"
    /\ verifier_calls' = verifier_calls + 1
    /\ verdict' = "fail"
    /\ \E stderr \in Diagnostics :
           /\ last_error' = stderr
           /\ ref_error' = stderr
    /\ IF HasNextRound(round_idx)
       THEN /\ round_idx' = round_idx + 1
            /\ pc' = "build"
            /\ results' = results
       ELSE /\ round_idx' = round_idx
            /\ pc' = "returned"
            /\ results' = results
    /\ UNCHANGED mainVars
    /\ UNCHANGED <<problem_description, task_lean_code, code_snippet,
                   proof_snippet, messages, response, filled, llm_calls,
                   reasoner_calls, round_calls, llm_raises, reasoner_raises,
                   first_sent, sent, code_set, proof_set, code_extracted,
                   proof_extracted, start_code, start_proof, ref_messages,
                   agents_called, extractions, escaped>>

\* variant of VerifyFails: the diagnostic kept only when no error is recorded
VerifyFailsKeepsError ==
    /\ pc = "verify"
    /\ verifier_calls' = verifier_calls + 1
    /\ verdict' = "fail"
    /\ \E stderr \in Diagnostics :
           /\ last_error' = IF last_error = <<>> THEN stderr ELSE last_error
           /\ ref_error' = IF ref_error = <<>> THEN stderr ELSE ref_error
    /\ IF HasNextRound(round_idx)
       THEN /\ round_idx' = round_idx + 1
            /\ pc' = "build"
            /\ results' = results
       ELSE /\ round_idx' = round_idx
            /\ pc' = "returned"
            /\ results' =
                   Append(results, ExhaustedResult(code_snippet, proof_snippet))
    /\ UNCHANGED mainVars
    /\ UNCHANGED <<problem_description, task_lean_code, code_snippet,
                   proof_snippet, messages, response, filled, llm_calls,
                   reasoner_calls, round_calls, llm_raises, reasoner_raises,
                   first_sent, sent, code_set, proof_set, code_extracted,
                   proof_extracted, start_code, start_proof, ref_messages,
                   agents_called, extractions, escaped>>

\* execute_lean_code(filled) returns failure with a diagnostic: keep it as
\* last_error and go to the next round, or leave the loop and return
VerifyFails ==
    /\ pc = "verify"
    /\ verifier_calls' = verifier_calls + 1
    /\ verdict' = "fail"
    /\ \E stderr \in Diagnostics :
           /\ last_error' = stderr
           /\ ref_error' = stderr
    /\ IF HasNextRound(round_idx)
       THEN /\ round_idx' = round_idx + 1
            /\ pc' = "build"
            /\ results' = results
       ELSE /\ round_idx' = round_idx
            /\ pc' = "returned"
            /\ results' =
                   Append(results, ExhaustedResult(code_snippet, proof_snippet))
    /\ UNCHANGED mainVars
    /\ UNCHANGED <<problem_description, task_lean_code, code_snippet,
                   proof_snippet, messages, response, filled, llm_calls,
                   reasoner_calls, round_calls, llm_raises, reasoner_raises,
                   first_sent, sent, code_set, proof_set, code_extracted,
                   proof_extracted, start_code, start_proof, ref_messages,
                   agents_called, extractions, escaped>>

Next ==
    \/ BuildPrompt
    \/ GetResponseReturns
    \/ GetResponseRaises
    \/ RetryRaises
    \/ ExtractAndInject
    \/ VerifySucceeds
    \/ VerifyFails

Spec == Init /\ [][Next]_vars

(***************************************************************************)
(* Notions the properties are stated with                                  *)
(***************************************************************************)
\* number of occurrences of the one-token text tok in text
Count(text, tok) == Cardinality({i \in 1..Len(text) : text[i] = tok[1]})

\* the text strictly between the first start and the first end
Between(text, start, end) ==
    SubSeq(text, Find(text, start) + 1, Find(text, end) - 1)

\* f is raw without its leading and trailing whitespace
IsTrimOf(f, raw) ==
    /\ f = <<>> \/ (f[1] \notin Whitespace /\ f[Len(f)] \notin Whitespace)
    /\ \E i \in 1..(Len(raw) + 1) : \E j \in 0..Len(raw) :
           /\ f = SubSeq(raw, i, j)
           /\ \A k \in 1..(i - 1) : raw[k] \in Whitespace
           /\ \A k \in (j + 1)..Len(raw) : raw[k] \in Whitespace

\* each of the four markers occurs once, each start before its end
WellFormedMarkers(text) ==
    /\ Count(text, CODE_START) = 1
    /\ Count(text, CODE_END) = 1
    /\ Count(text, PROOF_START) = 1
    /\ Count(text, PROOF_END) = 1
    /\ Find(text, CODE_START) < Find(text, CODE_END)
    /\ Find(text, PROOF_START) < Find(text, PROOF_END)

\* main_workflow returned from inside the loop in round r
ReturnedInRound(r) == pc = "returned" /\ verdict = "ok" /\ round_idx = r

\* main_workflow returned after three failed rounds
ReturnedExhausted == pc = "returned" /\ verdict = "fail"

(***************************************************************************)
(* C1: when the first response of round 0 carries well-formed code and     *)
(* proof markers and the verifier accepts, main_workflow returns in round  *)
(* 0 after one verifier call and no call of the refinement agent, and the  *)
(* returned code and proof are the texts between the markers, trimmed.     *)
(***************************************************************************)
C1_RoundZeroReturn ==
    (round_idx = 0 /\ verdict = "ok" /\ WellFormedMarkers(response)) =>
        /\ pc = "returned"
        /\ Len(results) = 1
        /\ reasoner_calls = 0
        /\ verifier_calls = 1
        /\ IsTrimOf(results[1].code, Between(response, CODE_START, CODE_END))
        /\ IsTrimOf(results[1].proof,
                    Between(response, PROOF_START, PROOF_END))

C1_Witness ==
    /\ ReturnedInRound(0)
    /\ WellFormedMarkers(response)
    /\ Between(response, CODE_START, CODE_END) = <<"sp", "x">>
    /\ results = <<[code |-> <<"x">>, proof |-> <<"y">>]>>

(***************************************************************************)
(* C2: when verification fails in rounds 0 and 1 and succeeds in round 2,  *)
(* exactly three generation calls are made, one on the primary agent and   *)
(* two on the refinement agent, and the round-2 fragments are returned.    *)
(***************************************************************************)
\* the fragments the extraction of the current round leaves
RoundFragments ==
    LET x == Extract(response, start_code, start_proof)
    IN  [code |-> x.code, proof |-> x.proof]

C2_ThreeCallsOriginal ==
    ReturnedInRound(2) =>
        /\ llm_calls = 1
        /\ reasoner_calls = 2
        /\ results = <<RoundFragments>>

\* amended: three calls that return a response, and one more call of the
\* same agent for every round whose first call raised
C2_ThreeResponses ==
    ReturnedInRound(2) =>
        /\ llm_calls - llm_raises = 1
        /\ reasoner_calls - reasoner_raises = 2
        /\ llm_raises \in 0..1
        /\ reasoner_raises \in 0..2
        /\ verifier_calls = 3
        /\ results = <<RoundFragments>>

C2_Witness ==
    /\ ReturnedInRound(2)
    /\ llm_calls = 2
    /\ reasoner_calls = 3
    /\ results = <<[code |-> <<"z">>, proof |-> <<"y">>]>>

(***************************************************************************)
(* C3: when verification fails in all three rounds, each returned field is *)
(* the fragment its last extraction produced, or "sorry" if and only if    *)
(* that fragment was never extracted in any round.                         *)
(***************************************************************************)
C3_SorryOriginal ==
    ReturnedExhausted =>
        /\ (results[1].code = SORRY) <=> ~code_extracted
        /\ code_extracted => results[1].code = code_snippet
        /\ (results[1].proof = SORRY) <=> ~proof_extracted
        /\ proof_extracted => results[1].proof = proof_snippet

\* amended: "sorry" if and only if the fragment is empty at the end, which
\* it is when never extracted and also when last extracted as empty text
C3_SorryWhenEmpty ==
    ReturnedExhausted =>
        /\ Len(results) = 1
        /\ (results[1].code = SORRY) <=> (code_snippet = <<>>)
        /\ code_snippet # <<>> =>
               code_extracted /\ results[1].code = code_snippet
        /\ ~code_extracted => results[1].code = SORRY
        /\ (results[1].proof = SORRY) <=> (proof_snippet = <<>>)
        /\ proof_snippet # <<>> =>
               proof_extracted /\ results[1].proof = proof_snippet
        /\ ~proof_extracted => results[1].proof = SORRY

C3_Witness ==
    /\ ReturnedExhausted
    /\ code_extracted
    /\ code_snippet = <<>>
    /\ results = <<[code |-> SORRY, proof |-> <<"y">>]>>

(***************************************************************************)
(* C4: every invocation of main_workflow produces exactly one Result,      *)
(* whatever the agents and the verifier do.                                *)
(***************************************************************************)
Finished == pc \in {"returned", "raised"}

\* the claim, for the runs in which the extraction does not raise (C7)
C4_OneResultOriginal ==
    (Finished /\ escaped # "IndexError") => Len(results) = 1

\* amended: at most one Result; exactly one when main_workflow returns and
\* none when an exception leaves it
C4_AtMostOneResult ==
    /\ Len(results) <= 1
    /\ (pc = "returned") <=> (Len(results) = 1)
    /\ (pc = "raised") <=> (escaped # "none")
    /\ pc = "raised" => results = <<>>
    /\ \A i \in 1..Len(results) : DOMAIN results[i] = {"code", "proof"}

C4_Witness ==
    /\ pc = "raised"
    /\ escaped = "get_response"
    /\ round_idx = 1
    /\ results = <<>>

(***************************************************************************)
(* C5: in every round a generation call that raises is followed by exactly *)
(* one more call of the same agent with the same message list; when that   *)
(* call raises too, the exception leaves main_workflow with no extraction, *)
(* no verifier call and no further round.  No round makes more than two    *)
(* generation calls.                                                       *)
(***************************************************************************)
CallRaises ==
    llm_raises' + reasoner_raises' > llm_raises + reasoner_raises

C5_State ==
    /\ round_calls \in 0..2
    /\ Len(agents_called) = round_calls
    /\ pc = "retry" => round_calls = 1
    /\ round_calls = 2 =>
           /\ agents_called[1] = agents_called[2]
           /\ sent = first_sent
    /\ escaped = "get_response" =>
           /\ pc = "raised"
           /\ round_calls = 2
           /\ extractions = round_idx
           /\ verifier_calls = round_idx
           /\ results = <<>>

C5_Step ==
    /\ escaped = "none"
    /\ (pc = "try" /\ CallRaises) =>
           /\ pc' = "retry"
           /\ messages' = messages
           /\ round_idx' = round_idx
    /\ pc = "retry" =>
           /\ round_calls' = 2
           /\ sent' = first_sent
           /\ CallRaises => (pc' = "raised" /\ escaped' = "get_response")
    /\ round_calls' = 2 => (pc = "retry" \/ round_calls = 2)

C5_RetryOnce == [](C5_State) /\ [][C5_Step]_vars

C5_Witness ==
    /\ escaped = "get_response"
    /\ round_idx = 2
    /\ llm_raises = 1
    /\ reasoner_raises = 2

(***************************************************************************)
(* C6: a generation call that raises and is retried with success changes   *)
(* nothing but the extra call: the round index, the message lists of that  *)
(* round and of all later rounds, the documents verified and the Result    *)
(* are those of the run without the failure, and the text of the exception *)
(* is in no later prompt.  ref_error and ref_messages are last_error and   *)
(* messages of the run in which no generation call raises; every other     *)
(* local is computed from the response and the snippets alone.             *)
(***************************************************************************)
\* the error text embedded in a message list, if it embeds one
ErrorTexts(m) ==
    IF m # NoMessages /\ "error" \in DOMAIN m[2].content
    THEN {m[2].content.error}
    ELSE {}

C6_State ==
    /\ messages = ref_messages
    /\ round_calls > 0 => (sent = ref_messages /\ first_sent = ref_messages)
    /\ ErrorTexts(messages) \cap Exceptions = {}
    /\ ErrorTexts(sent) \cap Exceptions = {}

C6_Step ==
    (pc = "try" /\ CallRaises) =>
        UNCHANGED <<round_idx, messages, code_snippet, proof_snippet, response,
                    filled, results, verifier_calls, ref_error, ref_messages>>

C6_RetryInvisible == [](C6_State) /\ [][C6_Step]_vars

C6_Witness ==
    /\ round_idx = 2
    /\ pc = "extract"
    /\ llm_raises = 1
    /\ reasoner_raises = 2
    /\ last_error \in Exceptions
    /\ ErrorTexts(sent) = {<<"err2">>}

(***************************************************************************)
(* C7: extraction never raises: whatever text the agent returns, the round *)
(* goes on to injection and verification and no exception of the           *)
(* extraction leaves main_workflow.                                        *)
(***************************************************************************)
C7_ExtractionNeverRaises ==
    /\ escaped # "IndexError"
    /\ extractions > verifier_calls => pc = "verify"

(***************************************************************************)
(* C8: the document handed to the verifier is the template with each       *)
(* {{code}} replaced by the code fragment and each {{proof}} replaced by   *)
(* the proof fragment, nothing else of template or fragments changed.      *)
(***************************************************************************)
\* replace the placeholders of the template, and only those
RECURSIVE Substitute(_, _, _)
Substitute(tmpl, c, p) ==
    IF tmpl = <<>>
    THEN <<>>
    ELSE (CASE <<Head(tmpl)>> = CODE_TOKEN -> c
            [] <<Head(tmpl)>> = PROOF_TOKEN -> p
            [] OTHER -> <<Head(tmpl)>>)
         \o Substitute(Tail(tmpl), c, p)

C8_ExactSubstitution ==
    pc = "verify" =>
        filled = Substitute(task_lean_code, code_snippet, proof_snippet)

(***************************************************************************)
(* Round 0 over every short response text                                  *)
(***************************************************************************)
MaxMarkerLen == 6
MaxFallbackLen == 7

\* every text of at most n tokens over the alphabet
Strings(alphabet, n) == UNION {[1..k -> alphabet] : k \in 0..n}

MarkerResponses == Strings({"CS", "CE", "PS", "PE", "sp", "a"}, MaxMarkerLen)

FallbackResponses == Strings({"KC", "KP", "nl", "a", "CS"}, MaxFallbackLen)

InitText == Init /\ task_lean_code = <<"t", "KC", "sp", "KP">>

GetMarkerResponse == GetResponse(MarkerResponses)

GetFallbackResponse == GetResponse(FallbackResponses)

NextMarkers == BuildPrompt \/ GetMarkerResponse \/ ExtractAndInject

NextFallback == BuildPrompt \/ GetFallbackResponse \/ ExtractAndInject

SpecMarkers == InitText /\ [][NextMarkers]_vars

SpecFallback == InitText /\ [][NextFallback]_vars

(***************************************************************************)
(* C9: for every response with both marker pairs, the code fragment is the *)
(* text between the first CODE START and the first CODE END and the proof  *)
(* fragment the text between the first PROOF START and the first PROOF     *)
(* END, each trimmed, whatever lies outside the markers and whichever pair *)
(* comes first.                                                            *)
(***************************************************************************)
\* the pair start/end is in text: a first start, and the first end after it
HasPair(text, start, end) ==
    /\ Find(text, start) > 0
    /\ Find(text, start) < Find(text, end)

\* no second start between the first start and the first end
NoRestart(text, start, end) ==
    \A i \in (Find(text, start) + 1)..(Find(text, end) - 1) :
        text[i] # start[1]

C9_MarkersOriginal ==
    (extractions = 1
     /\ HasPair(response, CODE_START, CODE_END)
     /\ HasPair(response, PROOF_START, PROOF_END)) =>
        /\ pc = "verify"
        /\ IsTrimOf(code_snippet, Between(response, CODE_START, CODE_END))
        /\ IsTrimOf(proof_snippet, Between(response, PROOF_START, PROOF_END))

\* amended: provided no start marker occurs again before its end marker
C9_MarkersNoRestart ==
    (extractions = 1
     /\ HasPair(response, CODE_START, CODE_END)
     /\ HasPair(response, PROOF_START, PROOF_END)
     /\ NoRestart(response, CODE_START, CODE_END)
     /\ NoRestart(response, PROOF_START, PROOF_END)) =>
        /\ pc = "verify"
        /\ IsTrimOf(code_snippet, Between(response, CODE_START, CODE_END))
        /\ IsTrimOf(proof_snippet, Between(response, PROOF_START, PROOF_END))

C9_Witness ==
    /\ extractions = 1
    /\ response = <<"PS", "PE", "CS", "sp", "a", "CE">>
    /\ code_snippet = <<"a">>
    /\ proof_snippet = <<>>

(***************************************************************************)
(* C10: for every response without markers of the shape {{code}} A         *)
(* {{proof}}\n B, the fallback yields code = A trimmed and proof = B       *)
(* trimmed.                                                                *)
(***************************************************************************)
NoMarkers(text) ==
    /\ Find(text, CODE_START) = 0
    /\ Find(text, CODE_END) = 0
    /\ Find(text, PROOF_START) = 0
    /\ Find(text, PROOF_END) = 0

\* text is {{code}} A {{proof}}\n B with the {{proof}}\n at index k
ShapeAt(text, k) ==
    /\ MatchAt(text, CODE_TOKEN, 1)
    /\ k >= 2
    /\ MatchAt(text, PROOF_TOKEN_NL, k)

PartA(text, k) == SubSeq(text, 2, k - 1)

PartB(text, k) == SubSeq(text, k + 2, Len(text))

\* neither {{code}} nor {{proof}}\n occurs in part
TokenFree(part) ==
    Find(part, CODE_TOKEN) = 0 /\ Find(part, PROOF_TOKEN_NL) = 0

C10_FallbackOriginal ==
    (extractions = 1 /\ NoMarkers(response) /\ pc = "verify") =>
        \A k \in 1..Len(response) :
            ShapeAt(response, k) =>
                /\ IsTrimOf(code_snippet, PartA(response, k))
                /\ IsTrimOf(proof_snippet, PartB(response, k))

\* amended: provided A and B contain neither {{code}} nor {{proof}}\n
C10_FallbackTokenFree ==
    (extractions = 1 /\ NoMarkers(response)) =>
        \A k \in 1..Len(response) :
            (/\ ShapeAt(response, k)
             /\ TokenFree(PartA(response, k))
             /\ TokenFree(PartB(response, k))) =>
                /\ pc = "verify"
                /\ IsTrimOf(code_snippet, PartA(response, k))
                /\ IsTrimOf(proof_snippet, PartB(response, k))

C10_Witness ==
    /\ extractions = 1
    /\ response = <<"KC", "nl", "a", "nl", "KP", "nl", "a">>
    /\ code_snippet = <<"a">>
    /\ proof_snippet = <<"a">>

(***************************************************************************)
(* The script: the block under if __name__ == "__main__"                   *)
(***************************************************************************)
\* command lines the script is started with
CommandLines ==
    { <<"src/main.py">>,
      <<"src/main.py", "tasks/task_id_0">>,
      <<"src/main.py", "tasks/empty_dir">>,
      <<"src/main.py", "tasks/task_id_0", "tasks/task_id_1">> }

\* directories that hold description.txt and task.lean
TaskDirectories == {"tasks/task_id_0", "tasks/task_id_1"}

\* variant of WrongArgCount: only a missing argument is refused
WrongArgCountTooFew(argv) == Len(argv) < 2

\* len(sys.argv) != 2
WrongArgCount(argv) == Len(argv) # 2

UsageLine == [line |-> "Usage: python src/main.py <task_directory>", text |-> <<>>]

CodeLine(r) == [line |-> "=== Generated CODE ===", text |-> r.code]

ProofLine(r) == [line |-> "=== Generated PROOF ===", text |-> r.proof]

\* the script is started; main_workflow has not been called
InitMain ==
    /\ problem_description = <<>>
    /\ task_lean_code = <<>>
    /\ pc = "idle"
    /\ InitLocals
    /\ sys_argv \in CommandLines
    /\ main_pc = "start"
    /\ main_desc = <<>>
    /\ main_tmpl = <<>>
    /\ stdout = <<>>
    /\ exit_status = -1
    /\ files_read = 0
    /\ workflow_runs = 0

workflowVars ==
    <<pc, round_idx, code_snippet, proof_snippet, last_error, messages,
      response, filled, results, llm_calls, reasoner_calls, round_calls,
      verifier_calls, llm_raises, reasoner_raises, verdict, first_sent, sent,
      code_set, proof_set, code_extracted, proof_extracted, start_code,
      start_proof, ref_error, ref_messages, agents_called, extractions,
      escaped>>

\* the argument count is wrong: print the usage message and sys.exit(1)
PrintUsage ==
    /\ main_pc = "start"
    /\ WrongArgCount(sys_argv)
    /\ stdout' = Append(stdout, UsageLine)
    /\ exit_status' = 1
    /\ main_pc' = "exited"
    /\ UNCHANGED <<sys_argv, main_desc, main_tmpl, files_read, workflow_runs,
                   problem_description, task_lean_code>>
    /\ UNCHANGED workflowVars

\* get_problem_and_code_from_taskpath reads description.txt and task.lean
ReadTask ==
    /\ main_pc = "start"
    /\ ~WrongArgCount(sys_argv)
    /\ sys_argv[2] \in TaskDirectories
    /\ \E d \in Descriptions : main_desc' = d
    /\ \E t \in Templates : main_tmpl' = t
    /\ files_read' = files_read + 2
    /\ main_pc' = "read"
    /\ UNCHANGED <<sys_argv, stdout, exit_status, workflow_runs,
                   problem_description, task_lean_code>>
    /\ UNCHANGED workflowVars

\* open() raises for a directory without the task files: the script ends
\* with a traceback
ReadTaskRaises ==
    /\ main_pc = "start"
    /\ ~WrongArgCount(sys_argv)
    /\ sys_argv[2] \notin TaskDirectories
    /\ exit_status' = 1
    /\ main_pc' = "exited"
    /\ UNCHANGED <<sys_argv, main_desc, main_tmpl, stdout, files_read,
                   workflow_runs, problem_description, task_lean_code>>
    /\ UNCHANGED workflowVars

\* result = main_workflow(desc, tmpl): the call
CallMainWorkflow ==
    /\ main_pc = "read"
    /\ problem_description' = main_desc
    /\ task_lean_code' = main_tmpl
    /\ pc' = "build"
    /\ workflow_runs' = workflow_runs + 1
    /\ main_pc' = "workflow"
    /\ UNCHANGED <<sys_argv, main_desc, main_tmpl, stdout, exit_status,
                   files_read>>
    /\ UNCHANGED <<round_idx, code_snippet, proof_snippet, last_error, messages,
                   response, filled, results, llm_calls, reasoner_calls,
                   round_calls, verifier_calls, llm_raises, reasoner_raises,
                   verdict, first_sent, sent, code_set, proof_set,
                   code_extracted, proof_extracted, start_code, start_proof,
                   ref_error, ref_messages, agents_called, extractions,
                   escaped>>

\* main_workflow returned: the two print calls, then the script ends
PrintResult ==
    /\ main_pc = "workflow"
    /\ pc = "returned"
    /\ stdout' = stdout \o <<CodeLine(results[1]), ProofLine(results[1])>>
    /\ exit_status' = 0
    /\ main_pc' = "exited"
    /\ UNCHANGED <<sys_argv, main_desc, main_tmpl, files_read, workflow_runs,
                   problem_description, task_lean_code>>
    /\ UNCHANGED workflowVars

\* an exception left main_workflow: the script ends with a traceback
Traceback ==
    /\ main_pc = "workflow"
    /\ pc = "raised"
    /\ exit_status' = 1
    /\ main_pc' = "exited"
    /\ UNCHANGED <<sys_argv, main_desc, main_tmpl, stdout, files_read,
                   workflow_runs, problem_description, task_lean_code>>
    /\ UNCHANGED workflowVars

NextMain ==
    \/ PrintUsage
    \/ ReadTask
    \/ ReadTaskRaises
    \/ CallMainWorkflow
    \/ Next
    \/ PrintResult
    \/ Traceback

SpecMain == InitMain /\ [][NextMain]_vars

(***************************************************************************)
(* C11: with an argument count other than one the script prints the usage  *)
(* message and exits with status 1 without reading a task file or calling  *)
(* main_workflow; with one task-directory argument it calls main_workflow  *)
(* once and prints both fragments of the Result, whether or not the        *)
(* verifier ever accepted.                                                 *)
(***************************************************************************)
\* the claim, for the runs in which the extraction does not raise (C7)
C11_EntryPointOriginal ==
    /\ Len(sys_argv) # 2 =>
           /\ files_read = 0
           /\ workflow_runs = 0
           /\ pc = "idle"
           /\ main_pc = "exited" => (stdout = <<UsageLine>> /\ exit_status = 1)
    /\ (Len(sys_argv) = 2 /\ sys_argv[2] \in TaskDirectories
        /\ main_pc = "exited" /\ escaped # "IndexError") =>
           /\ workflow_runs = 1
           /\ Len(results) = 1
           /\ stdout = <<CodeLine(results[1]), ProofLine(results[1])>>

\* amended: the fragments are printed when main_workflow returns; when an
\* exception leaves it the script ends with a traceback and prints nothing
C11_EntryPoint ==
    /\ Len(sys_argv) # 2 =>
           /\ files_read = 0
           /\ workflow_runs = 0
           /\ pc = "idle"
           /\ main_pc \in {"start", "exited"}
           /\ main_pc = "exited" => (stdout = <<UsageLine>> /\ exit_status = 1)
    /\ (Len(sys_argv) = 2 /\ sys_argv[2] \in TaskDirectories) =>
           /\ workflow_runs = (IF main_pc \in {"start", "read"} THEN 0 ELSE 1)
           /\ (main_pc = "exited" /\ pc = "returned") =>
                  /\ Len(results) = 1
                  /\ exit_status = 0
                  /\ stdout =
                         << [line |-> "=== Generated CODE ===",
                             text |-> results[1].code],
                            [line |-> "=== Generated PROOF ===",
                             text |-> results[1].proof] >>
           /\ (main_pc = "exited" /\ pc = "raised") =>
                  /\ results = <<>>
                  /\ exit_status = 1
                  /\ stdout = <<>>
           /\ main_pc = "exited" => pc \in {"returned", "raised"}

C11_WitnessUsage ==
    /\ Len(sys_argv) = 3
    /\ main_pc = "exited"
    /\ exit_status = 1
    /\ stdout = <<UsageLine>>
    /\ files_read = 0

C11_Witness ==
    /\ Len(sys_argv) = 2
    /\ main_pc = "exited"
    /\ verdict = "fail"
    /\ stdout = << [line |-> "=== Generated CODE ===", text |-> <<"z">>],
                   [line |-> "=== Generated PROOF ===", text |-> SORRY] >>

(***************************************************************************)
(* C12: when the marker extraction of a round fails and the fallback split *)
(* fails too, code and proof fragment are both what they were when the     *)
(* round began; no round in which the marker extraction fails changes one  *)
(* fragment and leaves the other stale.                                    *)
(***************************************************************************)
MarkerExtractionFails(text) ==
    Find(text, CODE_START) = 0 \/ Find(text, PROOF_START) = 0

FallbackSplitFails(text) == Find(text, CODE_TOKEN) = 0

C12_BothFragmentsKept ==
    (/\ pc = "verify"
     /\ MarkerExtractionFails(response)
     /\ FallbackSplitFails(response)) =>
        /\ code_snippet = start_code
        /\ proof_snippet = start_proof
        /\ code_set = proof_set

(***************************************************************************)
(* C13: once the verifier reports success in round k no further generation *)
(* or verifier call is made, and the returned code and proof are the       *)
(* fragments that were put into the accepted document, never "sorry" in    *)
(* place of an empty fragment.                                             *)
(***************************************************************************)
C13_State ==
    verdict = "ok" =>
        /\ pc = "returned"
        /\ verifier_calls = round_idx + 1
        /\ results = <<[code |-> code_snippet, proof |-> proof_snippet]>>
        /\ filled = Inject(task_lean_code, results[1].code, results[1].proof)

C13_Step ==
    /\ verdict # "ok"
    /\ verdict' = "ok" =>
           /\ pc = "verify"
           /\ UNCHANGED <<round_idx, code_snippet, proof_snippet, filled,
                          llm_calls, reasoner_calls>>

C13_ReturnOnSuccess == [](C13_State) /\ [][C13_Step]_vars

C13_Witness ==
    /\ ReturnedInRound(1)
    /\ code_snippet = <<>>
    /\ results = <<[code |-> <<>>, proof |-> <<"y">>]>>

(***************************************************************************)
(* C14: after three failed rounds the returned code is the code fragment   *)
(* held at the end of round 2 when it is non-empty and "sorry" when it is  *)
(* empty, and so is the returned proof; each field is decided on its own.  *)
(***************************************************************************)
C14_ExhaustedFields ==
    ReturnedExhausted =>
        /\ round_idx = 2
        /\ verifier_calls = 3
        /\ results =
               << [code |-> IF code_snippet = <<>> THEN SORRY ELSE code_snippet,
                   proof |-> IF proof_snippet = <<>>
                             THEN SORRY
                             ELSE proof_snippet] >>

C14_Witness ==
    /\ ReturnedExhausted
    /\ code_snippet = <<"z">>
    /\ proof_snippet = <<>>
    /\ results = <<[code |-> <<"z">>, proof |-> SORRY]>>

(***************************************************************************)
(* C15: in rounds 1 and 2 the user message for the refinement agent embeds *)
(* the code and proof fragments held at the end of the previous round and, *)
(* as error text, the diagnostic the verifier returned in the previous     *)
(* round, and nothing else of an earlier round.  ref_error is that         *)
(* diagnostic: only VerifyFails assigns it.                                *)
(***************************************************************************)
C15_RefinePrompt ==
    (round_idx >= 1 /\ pc \in {"try", "retry", "extract"}) =>
        /\ Len(messages) = 2
        /\ messages[1].role = "system"
        /\ messages[2].role = "user"
        /\ messages[2].content =
               [description |-> problem_description,
                template |-> task_lean_code,
                implementation |-> code_snippet,
                proof |-> proof_snippet,
                error |-> ref_error]
        /\ ref_error \in Diagnostics
        /\ round_calls > 0 => sent = messages

C15_Witness ==
    /\ round_idx = 2
    /\ pc = "retry"
    /\ last_error \in Exceptions
    /\ messages[2].content.implementation = <<"z">>
    /\ messages[2].content.proof = <<"y">>
    /\ messages[2].content.error = <<"err2">>

(***************************************************************************)
(* C16: every generation call of round 0, first attempt and retry, goes to *)
(* the primary agent, and every generation call of rounds 1 and 2 goes to  *)
(* the refinement agent.                                                   *)
(***************************************************************************)
C16_State ==
    /\ pc # "build" =>
           \A i \in 1..Len(agents_called) :
               agents_called[i] = (IF round_idx = 0 THEN "llm" ELSE "reasoner")
    /\ round_idx = 0 => reasoner_calls = 0
    /\ llm_calls <= 2

C16_Step ==
    /\ llm_calls' > llm_calls =>
           (round_idx = 0 /\ reasoner_calls' = reasoner_calls)
    /\ reasoner_calls' > reasoner_calls =>
           (round_idx \in {1, 2} /\ llm_calls' = llm_calls)

C16_AgentByRound == [](C16_State) /\ [][C16_Step]_vars

C16_Witness ==
    /\ round_idx = 2
    /\ agents_called = <<"reasoner", "reasoner">>
    /\ llm_calls = 2
    /\ reasoner_calls = 3

(***************************************************************************)
(* C17: rounds are sequential: every verifier call follows a generation    *)
(* call of the same round that returned, the verifier is called exactly    *)
(* once in every round whose generation returned, and round k+1 makes no   *)
(* generation call before the verifier of round k has returned failure.    *)
(***************************************************************************)
GenerationReturns ==
    (llm_calls - llm_raises) + (reasoner_calls - reasoner_raises)

C17_Sequential ==
    /\ verifier_calls <= GenerationReturns
    /\ GenerationReturns <= verifier_calls + 1
    /\ pc \in {"build", "try", "retry"} =>
           /\ verifier_calls = round_idx
           /\ GenerationReturns = round_idx
           /\ round_idx > 0 => verdict = "fail"
    /\ Finished => verifier_calls = GenerationReturns

(***************************************************************************)
(* C18: every execution of main_workflow ends, by returning a Result or by *)
(* an exception of a generation call, after at most three rounds, three    *)
(* verifier calls and six generation calls.                                *)
(***************************************************************************)
\* steps main_workflow can still take: the positions left in this round and
\* the five positions of each round after it
StepsLeft ==
    IF Finished
    THEN 0
    ELSE 5 * (MaxRounds - round_idx - 1)
         + (CASE pc = "build" -> 5
              [] pc = "try" -> 4
              [] pc = "retry" -> 3
              [] pc = "extract" -> 2
              [] pc = "verify" -> 1)

C18_Bounds ==
    /\ round_idx \in 0..2
    /\ verifier_calls <= 3
    /\ llm_calls + reasoner_calls <= 6
    /\ extractions <= 3
    /\ StepsLeft \in 0..15
    /\ StepsLeft = 0 <=> Finished

\* every step takes main_workflow closer to its end, whatever the external
\* call of that step returns or raises
C18_Terminates == [](C18_Bounds) /\ [][StepsLeft' < StepsLeft]_vars

\* the claim: within these bounds, and ended in one of the two ways it names
C18_EndsAsClaimed ==
    /\ [](C18_Bounds)
    /\ [](Finished => (Len(results) = 1 \/ escaped = "get_response"))
    /\ [][StepsLeft' < StepsLeft]_vars

C18_Witness ==
    /\ pc = "returned"
    /\ llm_calls + reasoner_calls = 6
    /\ verifier_calls = 3

====
